---- MODULE Spec2Model ----
(***************************************************************************)
(* Agent programs of aima-rust (src/src/agents.rs):                        *)
(*   table::TableDrivenAgent    percept history + lookup table             *)
(*   reflex::SimpleReflexAgent  interpret_input and rule_match, both FnOnce *)
(*   the table-building code of the module documentation                   *)
(***************************************************************************)
EXTENDS Naturals, Sequences, FiniteSets

(* ---------------------------------------------------------------- bounds *)
\* most distinct percept values of a table built by the table-building code
MaxAlphabet == 3
\* most sequence lengths the table-building code covers
MaxLifetime == 3
\* longest key of a table handed to TableDrivenAgent::new
MaxKeyLen == 2
\* most entries of a table handed to TableDrivenAgent::new
MaxEntries == 2
\* most run calls the driver makes on each of two TableDrivenAgent instances
MaxTwinRuns == 2
\* most passes of the documentation's loop that are followed
MaxPasses == 2
\* most run calls the driver makes on one TableDrivenAgent
MaxRuns == 3

(* ------------------------------------------------------- envs::weather *)
Weather == {"Sunny", "Rainy"}
Window == {"Open", "Close"}

\* the percept values of the Lookup example
Weather5 == {"Sunny", "Rainy", "Cloudy", "PartiallyCloudy", "Tornado"}

\* the State type the reflex agent's two functions meet in
State == Weather \cup {"Unknown"}

(* ---------------------------------------------------------------- state *)
VARIABLES
    percepts,    \* TableDrivenAgent.percepts : Vec<Percept>
    table,       \* TableDrivenAgent.table : HashMap<Vec<Percept>, Action>
    lifecycle,   \* "constructed" | "running" | "unwound" (instance lost to a panic)
    outcome,     \* what the last call of run produced
    key,         \* the key the last call of run handed to HashMap::get
    matched,     \* the keys of the entry that call of HashMap::get found (none, or one)
    supplied,    \* the table the driver handed to new
    fed,         \* the percepts the driver handed to run, in call order
    interpret_input,  \* SimpleReflexAgent.interpret_input : FnOnce(Percept) -> State
    rule_match,       \* SimpleReflexAgent.rule_match : FnOnce(State) -> Action
    reflexLifecycle,  \* "constructed" | "moved" (the FnOnce fields were called)
    reflexLog,        \* the calls made on this SimpleReflexAgent: percept and action
    given,            \* the two functions the driver handed to SimpleReflexAgent::new
    building,    \* the table under construction by the table-building code
    alphabet,    \* the percept values that code extends the sequences with
    actionOf,    \* the action that code stores for a sequence, by its last percept
    lifetime,    \* how many sequence lengths that code has put into the table
    passes,      \* how many passes of the documentation's loop have run
    agents,      \* two TableDrivenAgent instances, each with the outcomes of its calls
    script       \* the percepts the driver has handed out so far, the same to both

tableVars == <<percepts, table, lifecycle, outcome, key, matched, supplied, fed>>
reflexVars == <<interpret_input, rule_match, reflexLifecycle, reflexLog, given>>
buildVars == <<building, alphabet, actionOf, lifetime, passes>>
twinVars == <<agents, script>>
vars == <<tableVars, reflexVars, buildVars, twinVars>>

(* ------------------------------------------------------------- helpers *)
\* Vec<Percept> values of length lo..hi over an alphabet
SeqsOver(ps, lo, hi) == UNION {[1..n -> ps] : n \in lo..hi}

\* Option<&Action>
None == [some |-> FALSE, value |-> "-"]
Some(v) == [some |-> TRUE, value |-> v]

\* the two ways a call of run ends: a returned &Action, or the panic of unwrap
NoCall == [kind |-> "none", action |-> "-"]
Return(a) == [kind |-> "Return", action |-> a]
Panic == [kind |-> "Panic", action |-> "-"]

\* the finite tables a driver may build: HashMap<Vec<Weather>, Window>
Tables ==
    UNION {[ks -> Window] :
              ks \in {s \in SUBSET SeqsOver(Weather, 0, MaxKeyLen) :
                          Cardinality(s) <= MaxEntries}}

\* Vec::new()
Vec_new == <<>>

\* a push at the wrong end
push_front(v, x) == <<x>> \o v

\* Vec::push
push(v, x) == Append(v, x)

\* HashMap::insert: a new entry, or the value of the entry with an equal key replaced
insert(t, k, v) == [x \in DOMAIN t \cup {k} |-> IF x = k THEN v ELSE t[x]]

\* the table of the module documentation
DocTable == insert(insert(<<>>, <<"Sunny">>, "Open"), <<"Rainy">>, "Close")

\* a lookup that settles for the longest key that begins the history
find_prefix(t, k) ==
    LET ps == {x \in DOMAIN t : Len(x) <= Len(k) /\ x = SubSeq(k, 1, Len(x))}
    IN  {x \in ps : \A y \in ps : Len(y) <= Len(x)}

\* a lookup by the last percept alone
find_last(t, k) == IF k = <<>> THEN {} ELSE {<<k[Len(k)]>>} \cap DOMAIN t

\* the entries of t whose key equals k (Eq + Hash of Vec<Percept>: the whole sequence)
find(t, k) == {k} \cap DOMAIN t

\* HashMap::get: Some(&value) of the entry with a key equal to k, None otherwise
get(t, k) == IF find(t, k) # {} THEN Some(t[CHOOSE x \in find(t, k) : TRUE]) ELSE None

\* a lookup that falls back to a default action
unwrap_or_default(o) == IF o.some THEN Return(o.value) ELSE Return("Close")

\* Option::unwrap: the value, or a panic on None
unwrap(o) == IF o.some THEN Return(o.value) ELSE Panic

(* ---------------------------------------------------- TableDrivenAgent *)
\* TableDrivenAgent::new(table)
TableDrivenAgent_new(t) == [table |-> t, percepts |-> Vec_new]

\* run with the lookup done before the push
run_lookup_first(percept, caught) ==
    /\ lifecycle \in {"constructed", "running"}
    /\ Len(percepts) < MaxRuns
    /\ percepts' = push(percepts, percept)
    /\ key' = percepts
    /\ matched' = find(table, key')
    /\ outcome' = unwrap(get(table, key'))
    /\ lifecycle' = IF outcome'.kind = "Return" \/ caught THEN "running" ELSE "unwound"
    /\ fed' = Append(fed, percept)
    /\ UNCHANGED <<table, supplied, reflexVars, buildVars, twinVars>>

\* run that fills the table in on a miss
run_autopopulate(percept, caught) ==
    /\ lifecycle \in {"constructed", "running"}
    /\ Len(percepts) < MaxRuns
    /\ percepts' = push(percepts, percept)
    /\ key' = percepts'
    /\ matched' = find(table, key')
    /\ table' = IF matched' = {} THEN insert(table, key', "Close") ELSE table
    /\ outcome' = unwrap(get(table', key'))
    /\ lifecycle' = "running"
    /\ fed' = Append(fed, percept)
    /\ UNCHANGED <<supplied, reflexVars, buildVars, twinVars>>

\* run that takes the percept back out of the history when the lookup fails
run_rollback(percept, caught) ==
    /\ lifecycle \in {"constructed", "running"}
    /\ Len(percepts) < MaxRuns
    /\ key' = push(percepts, percept)
    /\ matched' = find(table, key')
    /\ outcome' = unwrap(get(table, key'))
    /\ percepts' = IF outcome'.kind = "Return" THEN key' ELSE percepts
    /\ lifecycle' = IF outcome'.kind = "Return" \/ caught THEN "running" ELSE "unwound"
    /\ fed' = Append(fed, percept)
    /\ UNCHANGED <<table, supplied, reflexVars, buildVars, twinVars>>

\* TableDrivenAgent::run(&mut self, percept).  The push is done when unwrap
\* panics, so the history keeps the percept.  A panic unwinds the caller: the
\* instance survives only when the caller catches the unwind (caught), and is
\* dropped with the unwinding frames (or the process aborts) otherwise.
run(percept, caught) ==
    /\ lifecycle \in {"constructed", "running"}
    /\ Len(percepts) < MaxRuns
    /\ percepts' = push(percepts, percept)
    /\ key' = percepts'
    /\ matched' = find(table, key')
    /\ outcome' = unwrap(get(table, key'))
    /\ lifecycle' = IF outcome'.kind = "Return" \/ caught THEN "running" ELSE "unwound"
    /\ fed' = Append(fed, percept)
    /\ UNCHANGED <<table, supplied, reflexVars, buildVars, twinVars>>

Run == \E percept \in Weather, caught \in BOOLEAN : run(percept, caught)

\* no SimpleReflexAgent is in play
IdleReflex ==
    /\ interpret_input = <<>>
    /\ rule_match = <<>>
    /\ reflexLifecycle = "moved"
    /\ reflexLog = <<>>
    /\ given = <<>>

\* no table is under construction
IdleBuild ==
    /\ building = <<>>
    /\ alphabet = {}
    /\ actionOf = <<>>
    /\ lifetime = 0
    /\ passes = 0

\* no pair of TableDrivenAgent instances is in play
IdleTwin ==
    /\ agents = <<>>
    /\ script = <<>>

\* no TableDrivenAgent is in play
IdleTable ==
    /\ table = <<>>
    /\ percepts = <<>>
    /\ supplied = <<>>
    /\ lifecycle = "unwound"
    /\ outcome = NoCall
    /\ key = <<>>
    /\ matched = {}
    /\ fed = <<>>

\* let mut agent = TableDrivenAgent::new(table)
Init ==
    /\ \E t \in Tables :
           /\ table = TableDrivenAgent_new(t).table
           /\ percepts = TableDrivenAgent_new(t).percepts
           /\ supplied = t
    /\ lifecycle = "constructed"
    /\ outcome = NoCall
    /\ key = <<>>
    /\ matched = {}
    /\ fed = <<>>
    /\ IdleReflex
    /\ IdleBuild
    /\ IdleTwin

Next == Run

Spec == Init /\ [][Next]_vars

(* ------------------------------------------------- TableDrivenAgent: claims *)
\* C1: when the whole sequence fed so far is a key of the supplied table, the
\* last run returned exactly the action stored under it; on the table of the
\* documentation, run(Sunny) on a fresh agent returns Open.
C1_ExactSequenceLookup ==
    /\ (outcome.kind # "none" /\ fed \in DOMAIN supplied) => outcome = Return(supplied[fed])
    /\ (supplied = DocTable /\ fed = <<"Sunny">>) => outcome = Return("Open")

C1_Witness ==
    /\ Len(fed) >= 2
    /\ fed \in DOMAIN supplied
    /\ <<fed[Len(fed)]>> \in DOMAIN supplied
    /\ supplied[<<fed[Len(fed)]>>] # supplied[fed]
    /\ outcome = Return(supplied[fed])

\* C2: when the sequence fed so far (the percept just supplied included) is no
\* key of the table, the call ends in the failure of the lookup and hands no
\* action back, default or otherwise.
C2_NotFoundSurfaced ==
    (outcome.kind # "none" /\ fed \notin DOMAIN supplied) =>
        (outcome.kind = "Panic" /\ outcome.action \notin Window)

C2_Witness ==
    /\ fed \notin DOMAIN supplied
    /\ supplied # <<>>
    /\ outcome = Panic

\* C3: on the n-th call the entry matched, if any, has a key of length n; on
\* the table of the documentation run(Sunny), run(Rainy) looks [Sunny, Rainy]
\* up and fails although [Rainy] is a key.
C3_KeyLengthIsCallCount ==
    /\ \A k \in matched : Len(k) = Len(fed)
    /\ outcome.kind = "Return" => matched # {}
    /\ (supplied = DocTable /\ fed = <<"Sunny", "Rainy">>) =>
           (key = <<"Sunny", "Rainy">> /\ matched = {} /\ outcome = Panic)

C3_Witness ==
    /\ supplied = DocTable
    /\ fed = <<"Sunny", "Rainy">>
    /\ <<"Rainy">> \in DOMAIN table
    /\ outcome = Panic

\* C4: the history is empty at construction and is, after any calls of run,
\* failed or not, exactly the percepts supplied, in call order.
C4_HistoryIsFed ==
    /\ percepts = fed
    /\ lifecycle = "constructed" => percepts = <<>>

C4_Witness ==
    /\ Len(fed) = MaxRuns
    /\ SubSeq(fed, 1, 1) \notin DOMAIN supplied
    /\ fed[1] # fed[2]
    /\ percepts = fed

\* C5: the agent's table is, in every reachable state, the table handed to new.
C5_TableUnchanged == table = supplied

C5_Witness ==
    /\ Len(fed) >= 2
    /\ outcome = Panic
    /\ lifecycle = "running"
    /\ table = supplied

\* C9: the agent is always either constructed or running: no call of run, a
\* failed one included, leaves the instance in a state with no further run.
C9_NoTerminalState == lifecycle \in {"constructed", "running"}

\* C10: the call after a failed run looks up the failed call's key extended by
\* the new percept: the failed percept stays in the history.
C10_NoRollback ==
    [][outcome = Panic =>
          (key' = Append(key, fed'[Len(fed')]) /\ percepts' = key')]_vars

C10_Witness ==
    /\ Len(fed) >= 2
    /\ lifecycle = "running"
    /\ get(supplied, SubSeq(fed, 1, Len(fed) - 1)) = None
    /\ key = fed
    /\ outcome.kind = "Return"

(* --------------------------------------------------- SimpleReflexAgent *)
\* reflex::identity
identity(t) == t

\* FnOnce::call_once: the function applied to its argument, the function consumed
call_once(f, x) == f[x]

\* new that keeps identity as the interpretation, whatever it is handed
SimpleReflexAgent_new_identity(i, m) ==
    [interpret_input |-> [p \in Weather |-> identity(p)], rule_match |-> m]

\* SimpleReflexAgent::new(interpret_input, rule_match)
SimpleReflexAgent_new(i, m) == [interpret_input |-> i, rule_match |-> m]

\* let agent = SimpleReflexAgent::new(i, m): a new instance replaces the old one
ReflexNew(i, m) ==
    /\ interpret_input' = SimpleReflexAgent_new(i, m).interpret_input
    /\ rule_match' = SimpleReflexAgent_new(i, m).rule_match
    /\ given' = [interpret |-> i, match |-> m]
    /\ reflexLifecycle' = "constructed"
    /\ reflexLog' = <<>>
    /\ UNCHANGED <<tableVars, buildVars, twinVars>>

\* run(percept) = rule_match(interpret_input(percept)).  The fields are bound by
\* FnOnce only: calling them moves them out of the instance, which is consumed.
ReflexRun(percept) ==
    /\ reflexLifecycle = "constructed"
    /\ reflexLog' = Append(reflexLog,
           [percept |-> percept,
            action |-> call_once(rule_match, call_once(interpret_input, percept))])
    /\ reflexLifecycle' = "moved"
    /\ UNCHANGED <<interpret_input, rule_match, given, tableVars, buildVars, twinVars>>

InitReflex ==
    /\ \E i \in [Weather -> State], m \in [State -> Window] :
           /\ interpret_input = SimpleReflexAgent_new(i, m).interpret_input
           /\ rule_match = SimpleReflexAgent_new(i, m).rule_match
           /\ given = [interpret |-> i, match |-> m]
    /\ reflexLifecycle = "constructed"
    /\ reflexLog = <<>>
    /\ IdleTable
    /\ IdleBuild
    /\ IdleTwin

NextReflex ==
    \/ \E percept \in Weather : ReflexRun(percept)
    \/ \E i \in [Weather -> State], m \in [State -> Window] : ReflexNew(i, m)

SpecReflex == InitReflex /\ [][NextReflex]_vars

C7_RepeatableRun ==
    /\ reflexLog # <<>> => reflexLifecycle = "constructed"
    /\ \A m, n \in DOMAIN reflexLog :
           reflexLog[m].percept = reflexLog[n].percept =>
               reflexLog[m].action = reflexLog[n].action

(* ------------------------------------------------ building a table *)
\* table.insert(k, rule[last percept of k]) for every k of ks (for_each): the
\* entries with these keys added, the value of an entry already there replaced
InsertAll(t, ks, rule) ==
    [x \in DOMAIN t \cup ks |-> IF x \in ks THEN rule[x[Len(x)]] ELSE t[x]]

\* table.keys().map(|ks| ks.len()).max().unwrap_or(0)
max_length(t) ==
    IF DOMAIN t = {} THEN 0
    ELSE CHOOSE n \in {Len(k) : k \in DOMAIN t} : \A k \in DOMAIN t : Len(k) <= n

\* table.keys().filter(|k| k.len() == max_length).cloned().collect()
sequences_to_extend(t) == {k \in DOMAIN t : Len(k) = max_length(t)}

\* one pass that extends the longest sequences by one percept value only
extend_one_path(t, ps, rule) ==
    InsertAll(t, {Append(k, CHOOSE p \in ps : TRUE) : k \in sequences_to_extend(t)}, rule)

\* one pass of the loop: every longest sequence extended by every percept value
extend(t, ps, rule) ==
    InsertAll(t, {Append(k, p) : k \in sequences_to_extend(t), p \in ps}, rule)

\* table.insert(vec![p], action) for every percept value: the initial conditions
SeedTable ==
    /\ lifetime = 0
    /\ building' = InsertAll(building, {<<p>> : p \in alphabet}, actionOf)
    /\ lifetime' = 1
    /\ UNCHANGED <<alphabet, actionOf, passes, tableVars, reflexVars, twinVars>>

\* one pass of the loop over a table that holds the initial conditions
ExtendTable ==
    /\ lifetime \in 1..(MaxLifetime - 1)
    /\ building' = extend(building, alphabet, actionOf)
    /\ lifetime' = lifetime + 1
    /\ UNCHANGED <<alphabet, actionOf, passes, tableVars, reflexVars, twinVars>>

\* let mut table = Table::new()
InitBuild ==
    /\ building = <<>>
    /\ alphabet \in {ps \in SUBSET Weather5 : Cardinality(ps) \in 1..MaxAlphabet}
    /\ actionOf \in [alphabet -> Window]
    /\ lifetime = 0
    /\ passes = 0
    /\ IdleTable
    /\ IdleReflex
    /\ IdleTwin

NextBuild == SeedTable \/ ExtendTable

SpecBuild == InitBuild /\ [][NextBuild]_vars

(* ------------------------------------------------ building a table: claims *)
RECURSIVE Power(_, _)
Power(b, e) == IF e = 0 THEN 1 ELSE b * Power(b, e - 1)

RECURSIVE GrowthSum(_, _)
\* sum over t = 1..T of p^t
GrowthSum(p, T) == IF T = 0 THEN 0 ELSE GrowthSum(p, T - 1) + Power(p, T)

\* C8: the table built for the sequences of length 1..T over the percept
\* values P holds every such sequence as a key, and has exactly
\* sum_{t=1..T} |P|^t entries.
C8_GrowthLaw ==
    /\ DOMAIN building = SeqsOver(alphabet, 1, lifetime)
    /\ Cardinality(DOMAIN building) = GrowthSum(Cardinality(alphabet), lifetime)

C8_Witness ==
    /\ Cardinality(alphabet) = 2
    /\ lifetime = 3
    /\ Cardinality(DOMAIN building) = 14

(* ------------------------------------------------ the loop of the documentation *)
\* table.insert(rainy_path, Window::Close); table.insert(sunny_path, Window::Open)
LoopRule == [p \in Weather |-> IF p = "Rainy" THEN "Close" ELSE "Open"]

\* one pass of the loop body: max_length, sequences_to_extend, then for every
\* sequence found the rainy_path and the sunny_path inserted.  A table without
\* keys has no sequence to extend, and the pass leaves it as it is.
LoopPass ==
    /\ passes < MaxPasses
    /\ building' = extend(building, Weather, LoopRule)
    /\ passes' = passes + 1
    /\ UNCHANGED <<alphabet, actionOf, lifetime, tableVars, reflexVars, twinVars>>

\* the table on entry to the loop: Table::new() in the example as written, or
\* a table carried over from the examples before it (the initial conditions)
InitLoop ==
    /\ building \in Tables
    /\ alphabet = Weather
    /\ actionOf = LoopRule
    /\ lifetime = 0
    /\ passes = 0
    /\ IdleTable
    /\ IdleReflex
    /\ IdleTwin

NextLoop == LoopPass

SpecLoop == InitLoop /\ [][NextLoop]_vars

\* C11: every pass of the loop inserts the Rainy and the Sunny extension of
\* each longest key, and leaves the table with strictly more entries than it
\* found, the table the example starts from (Table::new()) included.
C11_LoopGrowsTable ==
    [][passes' # passes =>
          /\ \A k \in sequences_to_extend(building) :
                 {Append(k, "Rainy"), Append(k, "Sunny")} \subseteq DOMAIN building'
          /\ Cardinality(DOMAIN building') > Cardinality(DOMAIN building)]_vars

(* ------------------------------------- TableDrivenAgent: lifetime of a table *)
\* C12: with L the length of the longest key of the table handed to new (0
\* for a table without keys), every call of run after the L-th fails,
\* whatever the percepts.
C12_LifetimeBound ==
    (outcome.kind # "none" /\ Len(fed) > max_length(supplied)) => outcome = Panic

C12_Witness ==
    /\ max_length(supplied) >= 1
    /\ Len(fed) = max_length(supplied) + 2
    /\ SubSeq(fed, 1, 1) \in DOMAIN supplied
    /\ lifecycle = "running"
    /\ outcome = Panic

(* --------------------------------------- two TableDrivenAgent instances *)
\* run that takes the percept back out of the history when the lookup fails
agent_run_rollback(a, percept, caught) ==
    LET o == unwrap(get(a.table, push(a.percepts, percept)))
    IN  [percepts |-> IF o.kind = "Return" THEN push(a.percepts, percept) ELSE a.percepts,
         table |-> a.table,
         lifecycle |-> IF o.kind = "Return" \/ caught THEN "running" ELSE "unwound",
         log |-> Append(a.log, o)]

\* TableDrivenAgent::run(&mut self, percept) on the instance a: the push, then
\* the lookup of the whole history; log is the driver's record of the outcomes
agent_run(a, percept, caught) ==
    LET ps == push(a.percepts, percept)
        o == unwrap(get(a.table, ps))
    IN  [percepts |-> ps,
         table |-> a.table,
         lifecycle |-> IF o.kind = "Return" \/ caught THEN "running" ELSE "unwound",
         log |-> Append(a.log, o)]

\* the driver's next call of run on instance i: the percept is the one the
\* other instance got at this call, or a new one when i is the first to get here
TwinRun(i, caught) ==
    /\ agents[i].lifecycle \in {"constructed", "running"}
    /\ Len(agents[i].log) < MaxTwinRuns
    /\ \E percept \in Weather :
           /\ Len(agents[i].log) < Len(script) => percept = script[Len(agents[i].log) + 1]
           /\ script' = IF Len(agents[i].log) < Len(script) THEN script
                                                              ELSE Append(script, percept)
           /\ agents' = [agents EXCEPT ![i] = agent_run(@, percept, caught)]
    /\ UNCHANGED <<tableVars, reflexVars, buildVars>>

\* two agents constructed from equal tables
InitTwin ==
    /\ \E t \in Tables :
           agents = [i \in {1, 2} |->
                        [percepts |-> TableDrivenAgent_new(t).percepts,
                         table |-> TableDrivenAgent_new(t).table,
                         lifecycle |-> "constructed",
                         log |-> <<>>]]
    /\ script = <<>>
    /\ IdleTable
    /\ IdleReflex
    /\ IdleBuild

NextTwin == \E i \in {1, 2}, caught \in BOOLEAN : TwinRun(i, caught)

SpecTwin == InitTwin /\ [][NextTwin]_vars

\* C13: two agents built from equal tables and fed the same percepts have, call
\* by call, the same outcome, and equal histories after equally many calls;
\* the outcome of the n-th call is the lookup of the first n percepts in the
\* table, whatever the earlier calls came to.
C13_Deterministic ==
    /\ \A n \in DOMAIN agents[1].log \cap DOMAIN agents[2].log :
           agents[1].log[n] = agents[2].log[n]
    /\ Len(agents[1].log) = Len(agents[2].log) => agents[1].percepts = agents[2].percepts
    /\ \A i \in {1, 2} : \A n \in DOMAIN agents[i].log :
           agents[i].log[n] = unwrap(get(agents[i].table, SubSeq(script, 1, n)))

C13_Witness ==
    /\ Len(agents[1].log) = 2
    /\ Len(agents[2].log) = 2
    /\ agents[1].log[1] = Panic
    /\ agents[2].log[2].kind = "Return"
    /\ agents[1].percepts = agents[2].percepts

====
